---- MODULE Spec2Model ----
(***************************************************************************)
(* Model of the backend of hcailt_react: the shared helpers of             *)
(* backend/api/_shared.ts (normalizeBaseInput, ensureApiKey, callChatLLM,  *)
(* parseRequestBody, sendError, the method check around addCors) and the   *)
(* four endpoint handlers (translate, domain-check, plain, qe).            *)
(*                                                                         *)
(* Strings are sequences of fragments; each fragment stands for the        *)
(* substring it is named after, so a sequence is a concrete JavaScript     *)
(* string.  "<tool_call>" is the two fragments "<tool_" "call>", so that   *)
(* a marker can also occur split in a text.  Temperatures are integers in  *)
(* hundredths (0.3 is 30, 1 is 100).                                       *)
(***************************************************************************)
EXTENDS Integers, Sequences, FiniteSets, TLC

VARIABLES
  pc,        \* position of the handler: "idle", "awaiting", "awaitBody", "sleeping", "done"
  endpoint,  \* which handler file runs
  method,    \* req.method
  body,      \* the parsed request body
  base,      \* result of normalizeBaseInput (NoBase before / when it throws)
  env,       \* process.env as read by callChatLLM
  invoked,   \* number of callChatLLM invocations of this request
  attempt,   \* loop variable of the google retry loop (0 outside the loop)
  calls,     \* the outbound provider calls made, in order
  trace,     \* events of callChatLLM in order: call, fail, sleep, return, throw
  lastError, \* the error caught last
  pending,   \* the fireworks response whose body is being read
  rawText,   \* the trimmed provider text of the successful call
  result,    \* what callChatLLM returned or threw
  response,  \* the HTTP response sent
  allowedOrigins, \* the module constant allowedOrigins, computed when the module loads
  origin,    \* req.headers.origin
  headers,   \* the response headers addCors has set
  crashed,   \* the handler threw outside its try: nothing catches, nothing is sent
  sent,      \* number of responses sent (res.end / res.json)
  text,      \* input of the cleanup functions (text specification)
  once,      \* the text after one application of the stripping transform
  twice,     \* the text after two applications
  tstage     \* how many applications were made

vars == <<pc, endpoint, method, body, base, env, invoked, attempt, calls, trace,
          lastError, pending, rawText, result, response, allowedOrigins, origin,
          headers, crashed, sent, text, once, twice, tstage>>

handlerVars == <<pc, endpoint, method, body, base, env, invoked, attempt, calls, trace,
                 lastError, pending, rawText, result, response, allowedOrigins, origin,
                 headers, crashed, sent>>

corsVars == <<allowedOrigins, origin, headers, crashed>>

textVars == <<text, once, twice, tstage>>

-----------------------------------------------------------------------------
(* Bounds *)

MaxLen == 6        \* longest text given to the stripping transform
MaxCleanLen == 5   \* longest provider answer of the cleanup specification
MaxScoreLen == 4   \* longest provider answer of the score specification

-----------------------------------------------------------------------------
(* Strings *)

OpenA == "<tool_"
OpenB == "call>"
Close == "</think>"
Space == " "
Newline == "\n"
Whitespace == {Space, Newline}
\* the fixed warning marker of the fallback (the source's text begins with a warning sign)
Warning == "Model only output reasoning (no final answer found):\n\n"

\* s[i..j] as a sequence, empty when j < i
Slice(s, i, j) == IF j < i THEN <<>> ELSE SubSeq(s, i, j)

\* String.prototype.trim: whitespace removed at both ends
RECURSIVE TrimLeft(_)
TrimLeft(s) ==
  IF s # <<>> /\ Head(s) \in Whitespace THEN TrimLeft(Tail(s)) ELSE s

RECURSIVE TrimRight(_)
TrimRight(s) ==
  IF s # <<>> /\ s[Len(s)] \in Whitespace THEN TrimRight(Slice(s, 1, Len(s) - 1)) ELSE s

Trim(s) == TrimRight(TrimLeft(s))

\* String.prototype.includes for a needle given as a sequence of fragments
Includes(s, needle) ==
  \E i \in 1..(Len(s) + 1) :
     /\ i + Len(needle) - 1 <= Len(s)
     /\ \A k \in 1..Len(needle) : s[i + k - 1] = needle[k]

\* positions at which "<tool_call>" starts and a later "</think>" exists
OpenAt(s, i) == i + 1 <= Len(s) /\ s[i] = OpenA /\ s[i + 1] = OpenB

MatchStarts(s) ==
  { i \in 1..Len(s) : OpenAt(s, i) /\ \E j \in (i + 2)..Len(s) : s[j] = Close }

Min(S) == CHOOSE x \in S : \A y \in S : x <= y

\* end of the non-greedy match that starts at i: the first "</think>" after the opener
MatchEnd(s, i) == Min({ j \in (i + 2)..Len(s) : s[j] = Close })

\* a plausible slip: the g flag left out, only the first match removed
StripFirstOnly(s) ==
  IF MatchStarts(s) = {} THEN s
  ELSE LET i == Min(MatchStarts(s))
           j == MatchEnd(s, i)
       IN  Slice(s, 1, i - 1) \o Slice(s, j + 1, Len(s))

\* content.replace(/<tool_call>[\s\S]*?<\/think>/g, ''): every match is removed in
\* one left-to-right pass; scanning resumes after the end of each match
RECURSIVE StripTrace(_)
StripTrace(s) ==
  IF MatchStarts(s) = {} THEN s
  ELSE LET i == Min(MatchStarts(s))
           j == MatchEnd(s, i)
       IN  Slice(s, 1, i - 1) \o StripTrace(Slice(s, j + 1, Len(s)))

\* a plausible slip: the ternary of the fallback inverted / the marker dropped
FallbackNoMarker(clean, content) == IF clean # <<>> THEN clean ELSE content

\* clean || (content ? `<warning>${content}` : '')
Fallback(clean, content) ==
  IF clean # <<>> THEN clean
  ELSE IF content # <<>> THEN <<Warning>> \o content ELSE <<>>

\* the three lines that follow every successful provider call
CleanResponse(content) == Fallback(Trim(StripTrace(content)), content)

-----------------------------------------------------------------------------
(* Bounded texts *)

Frag == {OpenA, OpenB, Close, Space, "a"}

RECURSIVE SeqsUpTo(_, _)
SeqsUpTo(S, n) ==
  IF n = 0 THEN {<<>>}
  ELSE LET shorter == SeqsUpTo(S, n - 1)
       IN  shorter \cup { Append(s, x) : s \in { t \in shorter : Len(t) = n - 1 }, x \in S }

Texts == SeqsUpTo(Frag, MaxLen)

CleanTexts == SeqsUpTo(Frag, MaxCleanLen)

ScoreFrag == {"0", "1", "5", "a", "-"}

ScoreTexts == SeqsUpTo(ScoreFrag, MaxScoreLen)

-----------------------------------------------------------------------------
(* JavaScript values of the request body *)

Undefined == [t |-> "undefined", v |-> 0]
Other == [t |-> "other", v |-> 0]          \* null, a boolean, an object
Str(x) == [t |-> "string", v |-> x]
Num(n) == [t |-> "number", v |-> n]
IsStr(x) == x.t = "string"
IsNum(x) == x.t = "number"

Digits == {"0", "1", "2", "3", "4", "5", "6", "7", "8", "9"}

DigitVal(c) ==
  CASE c = "0" -> 0 [] c = "1" -> 1 [] c = "2" -> 2 [] c = "3" -> 3 [] c = "4" -> 4
    [] c = "5" -> 5 [] c = "6" -> 6 [] c = "7" -> 7 [] c = "8" -> 8 [] c = "9" -> 9

\* value of a run of decimal digits
RECURSIVE DecimalValue(_)
DecimalValue(ds) ==
  IF ds = <<>> THEN 0
  ELSE 10 * DecimalValue(Slice(ds, 1, Len(ds) - 1)) + DigitVal(ds[Len(ds)])

AllDigits(ds) == \A k \in 1..Len(ds) : ds[k] \in Digits

\* Number(string) on decimal literals: the trimmed string is empty (0), or an optional
\* sign, digits, at most one "." and at least one digit; anything else is NaN
Unsigned(s) == IF s # <<>> /\ Head(s) \in {"-", "+"} THEN Tail(s) ELSE s

DotAt(u) == IF \E k \in 1..Len(u) : u[k] = "."
            THEN Min({ k \in 1..Len(u) : u[k] = "." }) ELSE Len(u) + 1

IntPart(u) == Slice(u, 1, DotAt(u) - 1)
FracPart(u) == Slice(u, DotAt(u) + 1, Len(u))

IsNumeric(s) ==
  LET u == Unsigned(Trim(s))
  IN  \/ Trim(s) = <<>>
      \/ /\ AllDigits(IntPart(u)) /\ AllDigits(FracPart(u))
         /\ Len(IntPart(u)) + Len(FracPart(u)) >= 1

\* the value in hundredths (the literals of the model have at most two decimals)
Hundredths(f) ==
  IF Len(f) = 0 THEN 0
  ELSE IF Len(f) = 1 THEN 10 * DigitVal(f[1])
  ELSE 10 * DigitVal(f[1]) + DigitVal(f[2])

NumberOf(s) ==
  LET t == Trim(s)
      u == Unsigned(t)
      mag == 100 * DecimalValue(IntPart(u)) + Hundredths(FracPart(u))
  IN  IF t = <<>> THEN 0
      ELSE IF Head(t) = "-" THEN 0 - mag ELSE mag

DefaultTemperature == 30   \* 0.3
MinTemperature == 0
MaxTemperature == 100      \* 1

\* ensureNumber(value, fallback)
ensureNumber(value, fallback) ==
  IF IsNum(value) THEN value.v
  ELSE IF IsStr(value) /\ IsNumeric(value.v) THEN NumberOf(value.v)
  ELSE fallback

-----------------------------------------------------------------------------
(* Validation: baseSchema and the payload schemas *)

Providers == {"openai", "google", "groq", "fireworks"}
DefaultProvider == "openai"

ProviderIssues(p) ==
  IF p = Undefined \/ (IsStr(p) /\ p.v \in Providers) THEN <<>>
  ELSE <<"Invalid enum value">>

ModelIssues(m) ==
  IF m = Undefined THEN <<"Required">>
  ELSE IF ~IsStr(m) THEN <<"Expected string">>
  ELSE IF m.v = "" THEN <<"Model is required">>
  ELSE <<>>

\* a plausible slip: the upper limit of the schema left out
TemperatureIssuesNoMax(t) ==
  IF t < MinTemperature THEN <<"Number must be greater than or equal to 0">> ELSE <<>>

\* z.number().min(0).max(1) on the value ensureNumber produced
TemperatureIssues(t) ==
  IF t < MinTemperature THEN <<"Number must be greater than or equal to 0">>
  ELSE IF t > MaxTemperature THEN <<"Number must be less than or equal to 1">>
  ELSE <<>>

BaseIssues(b) ==
  ProviderIssues(b.provider) \o ModelIssues(b.model)
    \o TemperatureIssues(ensureNumber(b.temperature, DefaultTemperature))

BaseData(b) ==
  [provider    |-> IF b.provider = Undefined THEN DefaultProvider ELSE b.provider.v,
   model       |-> b.model.v,
   temperature |-> ensureNumber(b.temperature, DefaultTemperature)]

\* issues.map((i) => i.message).join(', ')
RECURSIVE JoinMessages(_)
JoinMessages(ms) ==
  IF ms = <<>> THEN <<>>
  ELSE IF Len(ms) = 1 THEN <<ms[1]>>
  ELSE <<ms[1], ", ">> \o JoinMessages(Tail(ms))

Endpoints == {"translate", "domain-check", "plain", "qe"}

\* the fields of each handler's payloadSchema, in schema order, with their messages
PayloadFields(ep) ==
  CASE ep = "translate"    -> <<"text">>
    [] ep = "domain-check" -> <<"text">>
    [] ep = "plain"        -> <<"originalText", "translatedText">>
    [] ep = "qe"           -> <<"originalText", "translatedText", "simplifiedText">>

RequiredMessage(f) ==
  CASE f = "text"           -> "Text is required"
    [] f = "originalText"   -> "Original text is required"
    [] f = "translatedText" -> "Translated text is required"
    [] f = "simplifiedText" -> "Simplified text is required"

FieldIssues(f, x) ==
  IF x = Undefined THEN <<"Required">>
  ELSE IF ~IsStr(x) THEN <<"Expected string">>
  ELSE IF x.v = "" THEN <<RequiredMessage(f)>>
  ELSE <<>>

RECURSIVE PayloadIssuesOf(_, _)
PayloadIssuesOf(fs, b) ==
  IF fs = <<>> THEN <<>>
  ELSE FieldIssues(Head(fs), b[Head(fs)]) \o PayloadIssuesOf(Tail(fs), b)

PayloadIssues(ep, b) == PayloadIssuesOf(PayloadFields(ep), b)

-----------------------------------------------------------------------------
(* callChatLLM *)

KeyName(p) ==
  CASE p = "openai" -> "OPENAI_API_KEY" [] p = "google" -> "GOOGLE_API_KEY"
    [] p = "groq" -> "GROQ_API_KEY" [] p = "fireworks" -> "FIREWORKS_API_KEY"

KeyNames == { KeyName(p) : p \in Providers }

\* a plausible slip: only an unset variable counts as missing
KeyMissingUnsetOnly(value) == value = Undefined

\* !value in ensureApiKey: undefined and the empty string are both missing
KeyMissing(value) == value = Undefined \/ value = Str("")

MissingKeyError(name) ==
  [isError |-> TRUE, message |-> <<name, " is missing. Set it as an environment variable.">>]

ReasoningModel == "gpt-5-mini"
ForcedTemperature == 100   \* 1

\* a plausible slip: the override applied in every provider branch
FinalTemperatureAnyProvider(provider, model, temperature) ==
  IF model = ReasoningModel THEN ForcedTemperature ELSE temperature

\* the temperature of the outbound call: the override exists in the openai branch only
FinalTemperature(provider, model, temperature) ==
  IF provider = "openai" /\ model = ReasoningModel THEN ForcedTemperature ELSE temperature

\* where the prompts go: two messages, or one merged user turn for google
PromptShape(provider) == IF provider = "google" THEN "merged" ELSE "system+user"

OutboundCall(b) ==
  [provider    |-> b.provider,
   model       |-> b.model,
   temperature |-> FinalTemperature(b.provider, b.model, b.temperature),
   shape       |-> PromptShape(b.provider)]

MaxAttempts == 3        \* for (attempt = 1; attempt <= 3; attempt++)
RetryBelow == 3         \* isRetryable && attempt < 3
BackoffUnit == 1000

\* toLowerCase on the fragments that hold upper-case letters
LowerFrag(c) ==
  CASE c = "Overloaded" -> "overloaded"
    [] c = "Yes" -> "yes"
    [] c = "Error: " -> "error: "
    [] c = "Fireworks error " -> "fireworks error "
    [] c = Warning -> "model only output reasoning (no final answer found):\n\n"
    [] OTHER -> c

ToLower(s) == [k \in 1..Len(s) |-> LowerFrag(s[k])]

\* error.toString(): "Error: <message>" for an Error, the value itself for a thrown string
ErrorToString(e) == IF e.isError THEN <<"Error: ">> \o e.message ELSE e.message

IsRetryable(e) ==
  LET errorMessage == ToLower(ErrorToString(e))
  IN  Includes(errorMessage, <<"5", "0", "3">>) \/ Includes(errorMessage, <<"overloaded">>)

\* a plausible slip: every error retried
ShouldRetryAnyError(e, att) == att < 3

\* isRetryable && attempt < 3
ShouldRetry(e, att) == IsRetryable(e) /\ att < RetryBelow

\* a plausible slip: a constant delay
BackoffDelayConstant(att) == 1000

\* attempt * 1000
BackoffDelay(att) == att * BackoffUnit

\* a plausible slip: the retry loop around every provider call
HasRetryLoopEverywhere(provider) == TRUE

\* only the google branch wraps its call in the retry loop
HasRetryLoop(provider) == provider = "google"

NoError == [isError |-> FALSE, message |-> <<>>]

\* an event of callChatLLM: the attempt called or failed (with its error), the delay slept
Event(ev, n) == [ev |-> ev, n |-> n, err |-> NoError]
FailEvent(n, e) == [ev |-> "fail", n |-> n, err |-> e]

Returned(value) == [kind |-> "return", value |-> value]
Thrown(e) == [kind |-> "throw", value |-> e]
NoResult == [kind |-> "none", value |-> <<>>]

NoResponse == [status |-> 0, kind |-> "none", payload |-> <<>>, allow |-> FALSE]
NoBase == [provider |-> "", model |-> "", temperature |-> 0]
NoPending == [status |-> <<>>, errText |-> <<>>]

\* the content of a successful provider answer, trimmed:
\* content?.trim() || '' (openai, groq), text()?.trim() || '' (google),
\* string / array joined with "\n" / anything else (fireworks)
RECURSIVE JoinLines(_)
JoinLines(parts) ==
  IF parts = <<>> THEN <<>>
  ELSE IF Len(parts) = 1 THEN parts[1]
  ELSE parts[1] \o <<Newline>> \o JoinLines(Tail(parts))

ExtractContent(provider, answer) ==
  IF IsStr(answer) THEN Trim(answer.v)
  ELSE IF provider = "fireworks" /\ answer.t = "array" THEN Trim(JoinLines(answer.v))
  ELSE <<>>

-----------------------------------------------------------------------------
(* addCors *)

\* an origin is a string of fragments: "https://preview" ".vercel.app"
VercelSuffix == ".vercel.app"

DefaultAllowedOrigin ==
  <<"https://hcailt.awordz.com", ",", "http://localhost:5173", ",", "http://localhost:5174">>

Separators == {",", Space, Newline}

\* .split(/[,\s]+/).map(trim).filter(Boolean): the maximal runs of fragments that are
\* not separators; the empty strings split leaves at the ends are filtered out
RECURSIVE SplitOrigins(_, _)
SplitOrigins(s, cur) ==
  IF s = <<>> THEN (IF cur = <<>> THEN <<>> ELSE <<cur>>)
  ELSE IF Head(s) \in Separators
  THEN (IF cur = <<>> THEN <<>> ELSE <<cur>>) \o SplitOrigins(Tail(s), <<>>)
  ELSE SplitOrigins(Tail(s), Append(cur, Head(s)))

\* process.env.ALLOWED_ORIGIN || '<the three default origins>'
ParseAllowedOrigins(config) ==
  SplitOrigins(IF config = Undefined \/ config = Str(<<>>)
               THEN DefaultAllowedOrigin ELSE config.v, <<>>)

InList(x, list) == \E k \in 1..Len(list) : list[k] = x

\* a plausible slip: includes('.vercel.app') instead of endsWith
isOriginAllowedIncludes(org, allowed) ==
  IF org = Undefined \/ org = Str(<<>>) THEN FALSE
  ELSE IF InList(org.v, allowed) THEN TRUE
  ELSE Includes(org.v, <<VercelSuffix>>)

\* isOriginAllowed: a present origin that is listed or ends with ".vercel.app"
isOriginAllowed(org, allowed) ==
  IF org = Undefined \/ org = Str(<<>>) THEN FALSE
  ELSE IF InList(org.v, allowed) THEN TRUE
  ELSE org.v[Len(org.v)] = VercelSuffix

\* isOriginAllowed(reqOrigin) ? reqOrigin : allowedOrigins[0]
OriginToAllow(org, allowed) ==
  IF isOriginAllowed(org, allowed) THEN org
  ELSE IF allowed # <<>> THEN Str(allowed[1]) ELSE Undefined

\* allowedOrigins.join('|')
RECURSIVE JoinOrigins(_)
JoinOrigins(list) ==
  IF list = <<>> THEN <<>>
  ELSE IF Len(list) = 1 THEN list[1]
  ELSE list[1] \o <<"|">> \o JoinOrigins(Tail(list))

NoHeaders ==
  [acao |-> Undefined, vary |-> Undefined, debugOrigin |-> Undefined,
   debugAllowed |-> Undefined, allowMethods |-> Undefined, allowHeaders |-> Undefined]

\* res.setHeader(name, undefined) throws ERR_HTTP_INVALID_HEADER_VALUE: the third
\* setHeader of addCors throws when there is no origin to allow
AddCorsThrows(org, allowed) == OriginToAllow(org, allowed) = Undefined

\* the headers addCors has set when it returns, or when its third setHeader throws
CorsHeaders(org, allowed) ==
  LET originToAllow == OriginToAllow(org, allowed)
      first == [NoHeaders EXCEPT
                  !.acao = IF originToAllow = Undefined THEN Str(<<"*">>) ELSE originToAllow,
                  !.vary = Str(<<"Origin">>)]
  IN  IF AddCorsThrows(org, allowed) THEN first
      ELSE [first EXCEPT !.debugOrigin = originToAllow,
                         !.debugAllowed = Str(JoinOrigins(allowed)),
                         !.allowMethods = Str(<<"POST, OPTIONS">>),
                         !.allowHeaders = Str(<<"Content-Type">>)]

-----------------------------------------------------------------------------
(* The endpoint handlers *)

\* sendError(res, status, message)
sendError(status, message, allow) ==
  [status |-> status, kind |-> "error", payload |-> message, allow |-> allow]

sendJson(kind, payload) ==
  [status |-> 200, kind |-> kind, payload |-> payload, allow |-> FALSE]

\* rawScore.match(/\d+/): the first run of digits, empty when there is none
DigitPositions(s) == { k \in 1..Len(s) : s[k] \in Digits }

FirstDigitRun(s) ==
  IF DigitPositions(s) = {} THEN <<>>
  ELSE LET i == Min(DigitPositions(s))
           j == Min({ k \in i..Len(s) : k = Len(s) \/ s[k + 1] \notin Digits })
       IN  Slice(s, i, j)

\* a plausible slip: the upper limit of the score left out
ScoreOutOfRangeNoMax(n) == n < 0

\* Number.isNaN(scoreNum) || scoreNum < 0 || scoreNum > 100
ScoreOutOfRange(n) == n < 0 \/ n > 100

QeResponse(rawScore) ==
  LET match == FirstDigitRun(rawScore)
      scoreNum == DecimalValue(match)
  IN  IF match = <<>>
      THEN sendError(422, <<"Could not parse QE score from response: '">> \o rawScore \o <<"'">>, FALSE)
      ELSE IF ScoreOutOfRange(scoreNum)
      THEN sendError(422, <<"QE score '">> \o match \o <<"' outside 0-100 range. Raw: '">>
                             \o rawScore \o <<"'">>, FALSE)
      ELSE sendJson("score", scoreNum)

\* what each handler sends for the text callChatLLM returned
SuccessResponse(ep, r) ==
  CASE ep = "translate"    -> sendJson("translation", r)
    [] ep = "plain"        -> sendJson("plainText", r)
    [] ep = "domain-check" ->
         sendJson("isMedical", [isMedical |-> Includes(ToLower(Trim(r)), <<"yes">>), raw |-> r])
    [] ep = "qe"           -> QeResponse(r)

\* the catch of the handler: error instanceof Error ? error.message : 'Unknown error'
CatchResponse(e) ==
  sendError(500, IF e.isError THEN e.message ELSE <<"Unknown error">>, FALSE)

\* the handler after callChatLLM settled
Finish(res) ==
  IF res.kind = "return" THEN SuccessResponse(endpoint, res.value)
  ELSE CatchResponse(res.value)

\* parseRequestBody: an object is taken as is, unparseable text becomes {}
EmptyBody ==
  [provider |-> Undefined, model |-> Undefined, temperature |-> Undefined,
   text |-> Undefined, originalText |-> Undefined, translatedText |-> Undefined,
   simplifiedText |-> Undefined]

parseRequestBody(raw) == IF raw.form = "object" THEN raw.value ELSE EmptyBody

-----------------------------------------------------------------------------
(* Inputs: requests, environments and provider answers *)

Methods == {"POST", "OPTIONS", "GET"}

\* values of ALLOWED_ORIGIN: unset, one origin, two origins between separators,
\* separators only
OriginConfigs ==
  { Undefined,
    Str(<<"https://app.example">>),
    Str(<<Space, "https://app.example", ",", Space, "https://hcailt.awordz.com", ",">>),
    Str(<<",", Space>>) }

\* values of the Origin header: none, empty, a default origin, a configured origin,
\* a vercel deployment, an unknown origin, an origin that only holds ".vercel.app"
RequestOrigins ==
  { Undefined, Str(<<>>),
    Str(<<"http://localhost:5173">>),
    Str(<<"https://app.example">>),
    Str(<<"https://preview", VercelSuffix>>),
    Str(<<"https://evil.example">>),
    Str(<<"https://x", VercelSuffix, ".evil.example">>) }

\* the request specification sends no Origin header or an unknown one
PlainOrigins == { Undefined, Str(<<"https://evil.example">>) }

ProviderFields == {Undefined, Other, Str("bogus")} \cup { Str(p) : p \in Providers }

ModelFields == {Undefined, Other, Str(""), Str(ReasoningModel), Str("models/gemini-2.5-flash")}

TemperatureNumbers == {0 - 20, 0, 10, 100, 150}

TemperatureStrings ==
  { <<>>, <<"0", ".", "5">>, <<"1", ".", "5">>, <<"-", "1">>, <<"a">>,
    <<Space, "1", Space>>, <<".", "5">>, <<"1", ".">> }

TemperatureFields ==
  {Undefined, Other} \cup { Num(n) : n \in TemperatureNumbers }
                     \cup { Str(x) : x \in TemperatureStrings }

FieldValues == {Undefined, Str(""), Str("ok")}

InSchema(ep, f) == \E k \in 1..Len(PayloadFields(ep)) : PayloadFields(ep)[k] = f

FieldChoices(ep, f) == IF InSchema(ep, f) THEN FieldValues ELSE {Undefined}

Bodies(ep) ==
  [provider : ProviderFields, model : ModelFields, temperature : TemperatureFields,
   text : FieldChoices(ep, "text"), originalText : FieldChoices(ep, "originalText"),
   translatedText : FieldChoices(ep, "translatedText"),
   simplifiedText : FieldChoices(ep, "simplifiedText")]

RawBodies(ep) ==
  { [form |-> "object", value |-> b] : b \in Bodies(ep) }
    \cup { [form |-> "garbage", value |-> EmptyBody] }

\* environments: each credential unset, empty or set; three of the four alike
CredValues == {Undefined, Str(""), Str("sk-key")}

Envs ==
  { e \in [KeyNames -> CredValues] :
      \E k \in KeyNames : \A i, j \in KeyNames \ {k} : e[i] = e[j] }

NoEnv == [k \in KeyNames |-> Undefined]

Err(message) == [isError |-> TRUE, message |-> message]

ProviderTexts ==
  { <<>>, <<Space, "a", Newline>>, <<OpenA, OpenB, "a", Close>>,
    <<OpenA, OpenB, "a", Close, "8", "2">>, <<"1", "5", "0">>, <<"Yes">> }

SdkAnswers == {Undefined} \cup { Str(x) : x \in ProviderTexts }

JsonAnswers == SdkAnswers \cup { [t |-> "array", v |-> <<<<"a">>, <<"8", "2", Space>>>>] }

ProviderErrors ==
  { Err(<<"[", "5", "0", "3", " Service Unavailable]">>),
    Err(<<"The model is ", "Overloaded">>),
    Err(<<"[", "4", "0", "0", " Bad Request]">>),
    Err(<<"[", "5", "0", "0", " Internal]">>),
    [isError |-> FALSE, message |-> <<"timeout">>] }

FetchErrors == { Err(<<"fetch failed">>), Err(<<"5", "0", "3">>) }

HttpStatuses == { <<"2", "0", "0">>, <<"5", "0", "3">>, <<"4", "0", "0">> }

ErrorBodies == { <<>>, <<"Overloaded">> }

JsonError == Err(<<"Unexpected token">>)

-----------------------------------------------------------------------------
(* The request specification: one request from arrival to its response *)

Init ==
  /\ pc = "idle"
  /\ endpoint = "translate"
  /\ method = "POST"
  /\ body = EmptyBody
  /\ base = NoBase
  /\ env = NoEnv
  /\ invoked = 0
  /\ attempt = 0
  /\ calls = <<>>
  /\ trace = <<>>
  /\ lastError = NoError
  /\ pending = NoPending
  /\ rawText = <<>>
  /\ result = NoResult
  /\ response = NoResponse
  /\ allowedOrigins = ParseAllowedOrigins(Undefined)
  /\ origin = Undefined
  /\ headers = NoHeaders
  /\ crashed = FALSE
  /\ sent = 0
  /\ text = <<>>
  /\ once = <<>>
  /\ twice = <<>>
  /\ tstage = 0

\* the handler from its entry to its first await (or to the response it sends before):
\* addCors, the method check, parseRequestBody, normalizeBaseInput, the payload schema,
\* and callChatLLM up to the outbound call
Entry(ep, m, raw, e) ==
  LET b == parseRequestBody(raw)
      issues == BaseIssues(b)
      data == BaseData(b)
      pissues == PayloadIssues(ep, b)
      key == e[KeyName(data.provider)]
      stop == [pc |-> "done", body |-> b, base |-> NoBase, env |-> NoEnv, invoked |-> 0,
               attempt |-> 0, calls |-> <<>>, trace |-> <<>>, result |-> NoResult,
               response |-> NoResponse]
  IN  IF m = "OPTIONS"
      THEN [stop EXCEPT !.body = EmptyBody,
                        !.response = [status |-> 200, kind |-> "none", payload |-> <<>>,
                                      allow |-> FALSE]]
      ELSE IF m # "POST"
      THEN [stop EXCEPT !.body = EmptyBody,
                        !.response = sendError(405, <<"Method not allowed">>, TRUE)]
      ELSE IF issues # <<>>
      THEN [stop EXCEPT !.response = CatchResponse(Err(JoinMessages(issues)))]
      ELSE IF pissues # <<>>
      THEN [stop EXCEPT !.base = data,
                        !.response = sendError(400, JoinMessages(pissues), FALSE)]
      ELSE IF KeyMissing(key)
      THEN [stop EXCEPT !.base = data, !.env = e, !.invoked = 1,
                        !.trace = <<Event("throw", 0)>>,
                        !.result = Thrown(MissingKeyError(KeyName(data.provider))),
                        !.response = CatchResponse(MissingKeyError(KeyName(data.provider)))]
      ELSE [stop EXCEPT !.pc = "awaiting", !.base = data, !.env = e, !.invoked = 1,
                        !.attempt = IF HasRetryLoop(data.provider) THEN 1 ELSE 0,
                        !.calls = <<OutboundCall(data)>>,
                        !.trace = <<Event("call", 1)>>]

\* the body is read for POST only, the environment only when callChatLLM is reached
RequestBodies(ep, m) ==
  IF m = "POST" THEN RawBodies(ep) ELSE { [form |-> "garbage", value |-> EmptyBody] }

EnvsRead(ep, m, raw) ==
  IF /\ m = "POST"
     /\ BaseIssues(parseRequestBody(raw)) = <<>>
     /\ PayloadIssues(ep, parseRequestBody(raw)) = <<>>
  THEN Envs ELSE {NoEnv}

\* one invocation of a handler up to its first await: addCors first, outside the try
HandleFrom(Origins, bodiesOf) ==
  /\ pc = "idle"
  /\ \E ep \in Endpoints, m \in Methods, org \in Origins :
       /\ endpoint' = ep
       /\ method' = m
       /\ origin' = org
       /\ headers' = CorsHeaders(org, allowedOrigins)
       /\ IF AddCorsThrows(org, allowedOrigins)
          THEN /\ crashed' = TRUE
               /\ pc' = "done"
               /\ UNCHANGED <<body, base, env, invoked, attempt, calls, trace, result,
                              response, sent>>
          ELSE \E raw \in bodiesOf[ep, m] :
                \E e \in EnvsRead(ep, m, raw) :
                  LET n == Entry(ep, m, raw, e)
                  IN  /\ crashed' = FALSE
                      /\ pc' = n.pc
                      /\ body' = n.body
                      /\ base' = n.base
                      /\ env' = n.env
                      /\ invoked' = n.invoked
                      /\ attempt' = n.attempt
                      /\ calls' = n.calls
                      /\ trace' = n.trace
                      /\ result' = n.result
                      /\ response' = n.response
                      /\ sent' = IF n.response = NoResponse THEN sent ELSE sent + 1
  /\ UNCHANGED <<lastError, pending, rawText, allowedOrigins, textVars>>

HandleRequest ==
  HandleFrom(PlainOrigins, [ep \in Endpoints, m \in Methods |-> RequestBodies(ep, m)])

\* the awaited provider call resolved with `answer`: extraction, cleanup, return,
\* and the rest of the handler
Succeed(answer) ==
  LET content == ExtractContent(base.provider, answer)
      ret == CleanResponse(content)
  IN  /\ rawText' = content
      /\ result' = Returned(ret)
      /\ trace' = Append(trace, Event("return", 0))
      /\ response' = Finish(Returned(ret))
      /\ sent' = sent + 1
      /\ pc' = "done"
      /\ UNCHANGED <<endpoint, method, body, base, env, invoked, attempt, calls,
                     lastError, pending, textVars, corsVars>>

\* the awaited provider call (or the reading of its body) failed with `err`;
\* body is the error text read from a non-2xx fireworks response
FailWith(err, errText) ==
  IF HasRetryLoop(base.provider) /\ ShouldRetry(err, attempt)
  THEN /\ lastError' = err
       /\ trace' = trace \o <<FailEvent(attempt, err), Event("sleep", BackoffDelay(attempt))>>
       /\ pc' = "sleeping"
       /\ pending' = [pending EXCEPT !.errText = errText]
       /\ UNCHANGED sent
       /\ UNCHANGED <<endpoint, method, body, base, env, invoked, attempt, calls,
                      rawText, result, response, textVars, corsVars>>
  ELSE /\ lastError' = IF HasRetryLoop(base.provider) THEN err ELSE lastError
       /\ trace' = trace \o <<FailEvent(attempt, err), Event("throw", 0)>>
       /\ result' = Thrown(err)
       /\ response' = Finish(Thrown(err))
       /\ sent' = sent + 1
       /\ pc' = "done"
       /\ pending' = [pending EXCEPT !.errText = errText]
       /\ UNCHANGED <<endpoint, method, body, base, env, invoked, attempt, calls,
                      rawText, textVars, corsVars>>

Fail(err) == FailWith(err, <<>>)

\* the SDK call of openai, groq or google settles
ProviderSettles ==
  /\ pc = "awaiting"
  /\ base.provider # "fireworks"
  /\ \/ \E a \in SdkAnswers : Succeed(a)
     \/ \E err \in ProviderErrors : Fail(err)

\* the fetch of the fireworks branch settles
FetchSettles ==
  /\ pc = "awaiting"
  /\ base.provider = "fireworks"
  /\ \/ \E err \in FetchErrors : Fail(err)
     \/ \E st \in HttpStatuses :
          /\ pending' = [status |-> st, errText |-> <<>>]
          /\ pc' = "awaitBody"
          /\ UNCHANGED sent
          /\ UNCHANGED <<endpoint, method, body, base, env, invoked, attempt, calls,
                         trace, lastError, rawText, result, response, textVars, corsVars>>

\* resp.ok: a status of 200..299
ResponseOk(resp) == DecimalValue(resp.status) \in 200..299

FireworksError(resp, errText) ==
  Err(<<"Fireworks error ">> \o resp.status \o <<": ">> \o errText)

\* resp.text() of a non-2xx response, or resp.json() of a 2xx response, settles
BodySettles ==
  /\ pc = "awaitBody"
  /\ IF ResponseOk(pending)
     THEN \/ \E a \in JsonAnswers : Succeed(a)
          \/ Fail(JsonError)
     ELSE \E errText \in ErrorBodies : FailWith(FireworksError(pending, errText), errText)

\* the backoff timer fires: attempt++ and the loop condition, then the next call
TimerFires ==
  /\ pc = "sleeping"
  /\ attempt' = attempt + 1
  /\ IF attempt + 1 <= MaxAttempts
     THEN /\ calls' = Append(calls, OutboundCall(base))
          /\ trace' = Append(trace, Event("call", attempt + 1))
          /\ pc' = "awaiting"
          /\ UNCHANGED <<result, response, sent>>
     ELSE /\ trace' = Append(trace, Event("throw", 0))
          /\ result' = Thrown(lastError)
          /\ response' = Finish(Thrown(lastError))
          /\ sent' = sent + 1
          /\ pc' = "done"
          /\ UNCHANGED calls
  /\ UNCHANGED <<endpoint, method, body, base, env, invoked, lastError, pending,
                 rawText, textVars, corsVars>>

Next == HandleRequest \/ ProviderSettles \/ FetchSettles \/ BodySettles \/ TimerFires

Spec == Init /\ [][Next]_vars

TypeOK ==
  /\ pc \in {"idle", "awaiting", "awaitBody", "sleeping", "done"}
  /\ attempt \in 0..(MaxAttempts + 1)
  /\ invoked \in 0..1

-----------------------------------------------------------------------------
(* The stripping specification: the transform applied twice to every bounded text *)

InitStrip ==
  /\ pc = "idle" /\ endpoint = "translate" /\ method = "POST" /\ body = EmptyBody
  /\ base = NoBase /\ env = NoEnv /\ invoked = 0 /\ attempt = 0 /\ calls = <<>>
  /\ trace = <<>> /\ lastError = NoError /\ pending = NoPending /\ rawText = <<>>
  /\ result = NoResult /\ response = NoResponse
  /\ allowedOrigins = ParseAllowedOrigins(Undefined) /\ origin = Undefined
  /\ headers = NoHeaders /\ crashed = FALSE /\ sent = 0
  /\ text \in Texts
  /\ once = <<>>
  /\ twice = <<>>
  /\ tstage = 0

StripOnce ==
  /\ tstage = 0
  /\ once' = StripTrace(text)
  /\ tstage' = 1
  /\ UNCHANGED <<handlerVars, text, twice>>

StripAgain ==
  /\ tstage = 1
  /\ twice' = StripTrace(once)
  /\ tstage' = 2
  /\ UNCHANGED <<handlerVars, text, once>>

NextStrip == StripOnce \/ StripAgain

SpecStrip == InitStrip /\ [][NextStrip]_vars

-----------------------------------------------------------------------------
(* The cleanup and score specifications: a valid request of each provider is    *)
(* awaiting its provider call, and the call answers with every bounded text     *)

AllKeys == [k \in KeyNames |-> Str("sk-key")]

ValidBody(ep, p) ==
  [provider |-> Str(p), model |-> Str("models/gemini-2.5-flash"), temperature |-> Undefined,
   text |-> IF InSchema(ep, "text") THEN Str("ok") ELSE Undefined,
   originalText |-> IF InSchema(ep, "originalText") THEN Str("ok") ELSE Undefined,
   translatedText |-> IF InSchema(ep, "translatedText") THEN Str("ok") ELSE Undefined,
   simplifiedText |-> IF InSchema(ep, "simplifiedText") THEN Str("ok") ELSE Undefined]

\* the state HandleRequest leaves for a valid POST of endpoint ep to provider p
Awaiting(ep, p) ==
  LET n == Entry(ep, "POST", [form |-> "object", value |-> ValidBody(ep, p)], AllKeys)
  IN  /\ endpoint = ep /\ method = "POST" /\ pc = n.pc /\ body = n.body /\ base = n.base
      /\ env = n.env /\ invoked = n.invoked /\ attempt = n.attempt /\ calls = n.calls
      /\ trace = n.trace /\ result = n.result /\ response = n.response
      /\ lastError = NoError /\ pending = NoPending /\ rawText = <<>>
      /\ allowedOrigins = ParseAllowedOrigins(Undefined) /\ origin = Undefined
      /\ headers = CorsHeaders(Undefined, ParseAllowedOrigins(Undefined))
      /\ crashed = FALSE /\ sent = 0
      /\ once = <<>> /\ twice = <<>> /\ tstage = 0

InitClean ==
  /\ \E p \in Providers : Awaiting("translate", p)
  /\ text \in CleanTexts

\* the SDK call answers with the text
AnswerArrives ==
  /\ pc = "awaiting"
  /\ base.provider # "fireworks"
  /\ Succeed(Str(text))

\* the fireworks fetch answers 200
FetchOk ==
  /\ pc = "awaiting"
  /\ base.provider = "fireworks"
  /\ pending' = [status |-> <<"2", "0", "0">>, errText |-> <<>>]
  /\ pc' = "awaitBody"
  /\ UNCHANGED sent
  /\ UNCHANGED <<endpoint, method, body, base, env, invoked, attempt, calls,
                 trace, lastError, rawText, result, response, textVars, corsVars>>

\* the fireworks body holds the text
BodyArrives ==
  /\ pc = "awaitBody"
  /\ Succeed(Str(text))

NextClean == AnswerArrives \/ FetchOk \/ BodyArrives

SpecClean == InitClean /\ [][NextClean]_vars

InitScore ==
  /\ \E p \in Providers \ {"fireworks"} : Awaiting("qe", p)
  /\ text \in ScoreTexts

NextScore == AnswerArrives

SpecScore == InitScore /\ [][NextScore]_vars

-----------------------------------------------------------------------------
(* The CORS specification: every configuration of ALLOWED_ORIGIN and every Origin  *)
(* header, with a few bodies of each kind; the provider actions are the same       *)

InitCors ==
  /\ pc = "idle" /\ endpoint = "translate" /\ method = "POST" /\ body = EmptyBody
  /\ base = NoBase /\ env = NoEnv /\ invoked = 0 /\ attempt = 0 /\ calls = <<>>
  /\ trace = <<>> /\ lastError = NoError /\ pending = NoPending /\ rawText = <<>>
  /\ result = NoResult /\ response = NoResponse
  /\ \E config \in OriginConfigs : allowedOrigins = ParseAllowedOrigins(config)
  /\ origin = Undefined /\ headers = NoHeaders /\ crashed = FALSE /\ sent = 0
  /\ text = <<>> /\ once = <<>> /\ twice = <<>> /\ tstage = 0

\* unparseable text, a valid body for each provider, one with a missing payload field,
\* one with a temperature out of range
CorsBodies(ep, m) ==
  IF m # "POST" THEN { [form |-> "garbage", value |-> EmptyBody] }
  ELSE { [form |-> "garbage", value |-> EmptyBody] }
         \cup { [form |-> "object", value |-> ValidBody(ep, p)] : p \in Providers }
         \cup { [form |-> "object",
                 value |-> [ValidBody(ep, "openai") EXCEPT ![PayloadFields(ep)[1]] = Undefined]],
                [form |-> "object",
                 value |-> [ValidBody(ep, "openai") EXCEPT !.temperature = Num(150)]] }

HandleCorsRequest ==
  HandleFrom(RequestOrigins, [ep \in Endpoints, m \in Methods |-> CorsBodies(ep, m)])

NextCors ==
  HandleCorsRequest \/ ProviderSettles \/ FetchSettles \/ BodySettles \/ TimerFires

SpecCors == InitCors /\ [][NextCors]_vars

-----------------------------------------------------------------------------
(* Properties *)

IsGoogleCall == invoked = 1 /\ base.provider = "google"

EventsOf(ev) == { i \in 1..Len(trace) : trace[i].ev = ev }

\* the error signature of transient overload: the string form of the error, lower-cased,
\* holds "503" or "overloaded"
IndicatesOverload(e) ==
  \/ Includes(ToLower(ErrorToString(e)), <<"5", "0", "3">>)
  \/ Includes(ToLower(ErrorToString(e)), <<"overloaded">>)

LastFail == trace[Len(trace) - 1]

\* C1: for provider google, callChatLLM makes at most 3 attempts; attempt k+1 is made
\* only after attempt k failed with an overload error; the call ends with the error of
\* attempt k, after exactly k attempts, when that error is not an overload error or
\* k = 3; a successful attempt ends the call with no further attempt.
C1_GoogleRetry ==
  IsGoogleCall =>
    /\ Len(calls) <= 3
    /\ Cardinality(EventsOf("call")) = Len(calls)
    /\ \A i \in EventsOf("call") :
         trace[i].n > 1 =>
           \E j \in 1..(i - 1) :
              /\ trace[j].ev = "fail"
              /\ trace[j].n = trace[i].n - 1
              /\ IndicatesOverload(trace[j].err)
    /\ \A j \in EventsOf("fail") :
         /\ trace[j].n = Cardinality({ i \in EventsOf("call") : i < j })
         /\ (~IndicatesOverload(trace[j].err) \/ trace[j].n = 3) =>
              /\ pc = "done"
              /\ result = Thrown(trace[j].err)
              /\ Len(calls) = trace[j].n
              /\ j = Len(trace) - 1
    /\ \A i \in EventsOf("return") :
         /\ i = Len(trace)
         /\ pc = "done"
         /\ result.kind = "return"
    /\ pc = "done" => Len(calls) = Cardinality(EventsOf("fail")) + Cardinality(EventsOf("return"))

\* three consecutive overload failures: 3 attempts, and the third error thrown
C1_Witness ==
  /\ IsGoogleCall
  /\ pc = "done"
  /\ Len(calls) = 3
  /\ Cardinality(EventsOf("fail")) = 3
  /\ \A j \in EventsOf("fail") : IndicatesOverload(trace[j].err)
  /\ result = Thrown(LastFail.err)
  /\ trace[2].err # LastFail.err

\* C2: for provider google the first event is attempt 1 (no delay before it); a delay
\* is taken only right after a failed attempt k < 3 and right before attempt k+1, and
\* lasts k * 1000 ms; every later attempt is directly preceded by its delay; the throw
\* follows the failure directly, without a delay.
C2_BackoffOrder ==
  IsGoogleCall =>
    /\ trace[1].ev \in {"call", "throw"}
    /\ \A i \in EventsOf("sleep") :
         /\ i > 1
         /\ trace[i - 1].ev = "fail"
         /\ trace[i - 1].n \in {1, 2}
         /\ trace[i].n = trace[i - 1].n * 1000
         /\ i < Len(trace) => trace[i + 1] = Event("call", trace[i - 1].n + 1)
         /\ i = Len(trace) => pc = "sleeping"
    /\ \A i \in EventsOf("call") :
         IF trace[i].n = 1 THEN i = 1
         ELSE trace[i - 1] = Event("sleep", (trace[i].n - 1) * 1000)
    /\ \A i \in EventsOf("throw") :
         /\ i = Len(trace)
         /\ i > 1 => trace[i - 1].ev = "fail"
    /\ \A j \in EventsOf("fail") :
         (~IndicatesOverload(trace[j].err) \/ trace[j].n = 3) =>
            trace[j + 1].ev = "throw"
    /\ pc = "sleeping" <=> (Len(trace) > 0 /\ trace[Len(trace)].ev = "sleep")

\* both delays were taken, 1000 ms then 2000 ms, and the third attempt was made
C2_Witness ==
  /\ IsGoogleCall
  /\ Len(trace) >= 7
  /\ trace[3] = Event("sleep", 1000)
  /\ trace[6] = Event("sleep", 2000)
  /\ trace[7] = Event("call", 3)

\* the request is a POST whose body fails validation: a shared or a payload field
InvalidPost ==
  /\ pc # "idle"
  /\ method = "POST"
  /\ (BaseIssues(body) # <<>> \/ PayloadIssues(endpoint, body) # <<>>)

\* C3: in every handler a POST with a malformed or missing request field (shared or
\* endpoint-specific) is answered with 400 and an { error } body holding the joined
\* validation messages, and callChatLLM is not invoked.
C3_ValidationIs400 ==
  InvalidPost =>
    /\ pc = "done"
    /\ invoked = 0
    /\ response.status = 400
    /\ response.kind = "error"
    /\ response.payload \in { JoinMessages(BaseIssues(body) \o PayloadIssues(endpoint, body)),
                              JoinMessages(BaseIssues(body)),
                              JoinMessages(PayloadIssues(endpoint, body)) }
    /\ response.payload # <<>>

\* C4: for every provider and every successful answer, with raw the trimmed answer and
\* stripped the trimmed result of stripping raw: callChatLLM returns stripped when it
\* is not empty, the warning marker followed by all of raw when stripped is empty and
\* raw is not, and the empty string when raw is empty.
C4_CleanedResult ==
  pc = "done" =>
    LET raw == Trim(text)
        stripped == Trim(StripTrace(raw))
    IN  /\ rawText = raw
        /\ result.kind = "return"
        /\ stripped # <<>> => result.value = stripped
        /\ (stripped = <<>> /\ raw # <<>>) =>
              /\ Head(result.value) = Warning
              /\ Tail(result.value) = raw
        /\ raw = <<>> => result.value = <<>>

\* the answer holds a trace and nothing else: the fallback carries the raw text
C4_Witness ==
  /\ pc = "done"
  /\ base.provider = "fireworks"
  /\ Trim(text) # <<>>
  /\ Trim(StripTrace(Trim(text))) = <<>>
  /\ result.value = <<Warning>> \o Trim(text)

\* C5 as stated: for every text, stripping twice gives what stripping once gives.
C5_Idempotent == tstage = 2 => twice = once

\* every "<tool_" of the text begins a complete "<tool_call>"
MarkersWhole(s) ==
  \A k \in 1..Len(s) : s[k] = OpenA => (k < Len(s) /\ s[k + 1] = OpenB)

\* C5 (amended): for every text in which no opening marker is split, stripping twice
\* gives what stripping once gives.
C5_IdempotentWhole == (tstage = 2 /\ MarkersWhole(text)) => twice = once

\* a text with two traces and text after them, stripped twice
C5_Witness ==
  /\ tstage = 2
  /\ MarkersWhole(text)
  /\ Cardinality(MatchStarts(text)) >= 2
  /\ once # text
  /\ once # <<>>
  /\ twice = once

\* the first maximal run of digits of s is s[i..j]
IsFirstRun(s, i, j) ==
  /\ i <= j
  /\ \A k \in i..j : s[k] \in Digits
  /\ \A k \in 1..(i - 1) : s[k] \notin Digits
  /\ j = Len(s) \/ s[j + 1] \notin Digits

\* C6: the quality-estimate handler answers 200 { score: n } exactly when the first
\* run of digits of the dispatcher's result is an integer n of 0..100, and otherwise
\* 422 with an error message that includes the result text; hence every 200 carries
\* a score of 0..100.
C6_ScoreOrUnprocessable ==
  (pc = "done" /\ endpoint = "qe" /\ result.kind = "return") =>
    LET r == result.value
        Good == { p \in (1..Len(r)) \X (1..Len(r)) :
                    /\ IsFirstRun(r, p[1], p[2])
                    /\ DecimalValue(Slice(r, p[1], p[2])) \in 0..100 }
    IN  /\ Good # {} =>
              \E p \in Good :
                 response = [status |-> 200, kind |-> "score",
                             payload |-> DecimalValue(Slice(r, p[1], p[2])), allow |-> FALSE]
        /\ Good = {} =>
              /\ response.status = 422
              /\ response.kind = "error"
              /\ Includes(response.payload, r)
        /\ response.status = 200 => response.payload \in 0..100

\* "a15" gives the score 15
C6_Witness ==
  /\ pc = "done"
  /\ endpoint = "qe"
  /\ text = <<"a", "1", "5">>
  /\ response.status = 200
  /\ response.payload = 15

\* C7 as stated: every outbound call for model gpt-5-mini carries temperature 1, and
\* every outbound call for another model carries the requested temperature.
C7_OverrideByModel ==
  \A i \in 1..Len(calls) :
     calls[i].temperature =
        IF base.model = ReasoningModel THEN 100 ELSE base.temperature

\* C7 (amended): an outbound call carries temperature 1 when the provider is openai
\* and the model is gpt-5-mini; in every other case (another model, or gpt-5-mini
\* requested from groq, google or fireworks) it carries the requested temperature.
C7_OverrideOpenAiOnly ==
  \A i \in 1..Len(calls) :
     /\ calls[i].model = base.model
     /\ calls[i].temperature =
          IF base.provider = "openai" /\ base.model = ReasoningModel
          THEN 100 ELSE base.temperature

\* gpt-5-mini requested from openai with temperature 0.1 is sent with temperature 1
C7_Witness ==
  /\ Len(calls) = 1
  /\ base.provider = "openai"
  /\ base.model = ReasoningModel
  /\ base.temperature = 10
  /\ calls[1].temperature = 100

SingleShot == {"openai", "groq", "fireworks"}

KeyOf(p) == env[KeyName(p)]

\* C8: for openai, groq and fireworks an invocation that reaches the provider makes
\* exactly one outbound call and never sleeps; a provider error, overload-like or not,
\* ends the call with that error; a fireworks non-2xx response becomes an error whose
\* message carries the status code and the body text.
C8_SingleAttempt ==
  (invoked = 1 /\ base.provider \in SingleShot) =>
    /\ Len(calls) <= 1
    /\ KeyOf(base.provider) = Str("sk-key") => Len(calls) = 1
    /\ pc # "sleeping"
    /\ EventsOf("sleep") = {}
    /\ \A j \in EventsOf("fail") :
         /\ pc = "done"
         /\ j = Len(trace) - 1
         /\ trace[Len(trace)].ev = "throw"
         /\ result = Thrown(trace[j].err)
    /\ (pc = "done" /\ pending.status # <<>> /\ ~ResponseOk(pending)) =>
         /\ result.kind = "throw"
         /\ result.value.isError
         /\ Includes(result.value.message, pending.status)
         /\ result.value.message =
              <<"Fireworks error ">> \o pending.status \o <<": ">> \o pending.errText
         /\ response = sendError(500, result.value.message, FALSE)

\* fireworks answered 503 with the body "Overloaded": one call, the error thrown
C8_Witness ==
  /\ invoked = 1
  /\ base.provider = "fireworks"
  /\ pc = "done"
  /\ pending.status = <<"5", "0", "3">>
  /\ pending.errText = <<"Overloaded">>
  /\ Len(calls) = 1
  /\ result.kind = "throw"

\* C9: when the credential of the requested provider is unset or empty, callChatLLM
\* throws at once an error naming the configuration variable, no outbound call is made
\* and nothing is slept, and the handler answers 500 with that message; when it is set,
\* the call is made whatever the other credentials are.
C9_MissingCredential ==
  invoked = 1 =>
    /\ KeyOf(base.provider) \in {Undefined, Str("")} =>
         /\ pc = "done"
         /\ calls = <<>>
         /\ trace = <<Event("throw", 0)>>
         /\ result.kind = "throw"
         /\ Head(result.value.message) = KeyName(base.provider)
         /\ response = sendError(500, result.value.message, FALSE)
    /\ KeyOf(base.provider) = Str("sk-key") => Len(calls) >= 1

\* google requested with an empty GOOGLE_API_KEY while another credential is set
C9_Witness ==
  /\ invoked = 1
  /\ base.provider = "google"
  /\ KeyOf("google") = Str("")
  /\ KeyOf("openai") = Str("sk-key")
  /\ calls = <<>>
  /\ response.status = 500
  /\ Head(response.payload) = "GOOGLE_API_KEY"

\* the request temperature as a number: a number as is, a numeric string parsed,
\* anything else 0.3
Coerced(x) ==
  IF x.t = "number" THEN x.v
  ELSE IF x.t = "string" /\ IsNumeric(x.v) THEN NumberOf(x.v)
  ELSE 30

Clamp(n) == IF n < 0 THEN 0 ELSE IF n > 100 THEN 100 ELSE n

\* a POST whose fields other than temperature are all valid
ValidButTemperature ==
  /\ pc # "idle"
  /\ method = "POST"
  /\ ProviderIssues(body.provider) = <<>>
  /\ ModelIssues(body.model) = <<>>
  /\ PayloadIssues(endpoint, body) = <<>>

\* C10 as stated: the temperature is coerced and clamped to [0,1], never rejected:
\* callChatLLM is invoked with the clamped value.
C10_Clamped ==
  ValidButTemperature =>
    /\ invoked = 1
    /\ base.temperature = Clamp(Coerced(body.temperature))

\* C10 (amended): the temperature is coerced (number as is, numeric string parsed,
\* otherwise 0.3); a value outside [0,1] is rejected with an error response and
\* callChatLLM is not invoked; so every temperature handed to callChatLLM is the
\* coerced value and lies in [0,1].
C10_CoercedOrRejected ==
  /\ invoked = 1 =>
       /\ base.temperature = Coerced(body.temperature)
       /\ base.temperature \in 0..100
  /\ ValidButTemperature =>
       IF Coerced(body.temperature) \in 0..100
       THEN invoked = 1
       ELSE /\ invoked = 0
            /\ pc = "done"
            /\ calls = <<>>
            /\ response.kind = "error"
            /\ response.status >= 400

\* the string "1.5" is coerced to 1.5 and the request is rejected
C10_Witness ==
  /\ ValidButTemperature
  /\ body.temperature = Str(<<"1", ".", "5">>)
  /\ invoked = 0
  /\ response.kind = "error"

SuccessKinds == {"translation", "plainText", "isMedical", "score"}

\* C11: every invocation of a handler sends exactly one response, and none before it
\* ends: OPTIONS gets 200 with no body, another non-POST method 405 with the Allow
\* header, a POST either a 200 success body or an { error } body; callChatLLM is
\* invoked at most once, and only for POST.
C11_ExactlyOneResponse ==
  /\ pc = "done" => sent = 1
  /\ pc # "done" => sent = 0
  /\ invoked <= 1
  /\ invoked = 1 => method = "POST"
  /\ pc = "done" =>
       CASE method = "OPTIONS" ->
              response = [status |-> 200, kind |-> "none", payload |-> <<>>, allow |-> FALSE]
         [] method = "POST" ->
              \/ response.status = 200 /\ response.kind \in SuccessKinds
              \/ response.status \in {400, 422, 500} /\ response.kind = "error"
         [] OTHER ->
              response.status = 405 /\ response.kind = "error" /\ response.allow

\* what holds of the code: the same, for the invocations in which addCors returns
C11_UnlessAddCorsThrows == crashed \/ C11_ExactlyOneResponse

\* the request carries an origin that is listed or ends with ".vercel.app"
OwnOriginAllowed ==
  /\ origin.t = "string"
  /\ origin.v # <<>>
  /\ \/ \E k \in 1..Len(allowedOrigins) : allowedOrigins[k] = origin.v
     \/ origin.v[Len(origin.v)] = VercelSuffix

====
